---- MODULE Spec2Model ----
(***************************************************************************)
(* MediFitMate: the health-topic classification / response-validation     *)
(* pipeline of voice-assistant/src/health_assistant.py (HealthAssistant). *)
(*                                                                         *)
(* Texts are TLA+ strings handled character by character (SubSeq), so the *)
(* substring tests, lower(), split() and split('\n') of the source are    *)
(* computed the way Python computes them.  Similarities are fixed-point   *)
(* numbers in hundredths (30 stands for 0.30).                            *)
(***************************************************************************)
EXTENDS Integers, Sequences, FiniteSets, TLC

VARIABLES
    now,             \* reading of the cache timer (time.monotonic), seconds
    response_cache,  \* HealthAssistant.response_cache, entries in link order
    ncalls,          \* process_query calls started so far
    pc,              \* position of the running process_query call
    text,            \* its argument
    topics,          \* its local `topics` (also validate_response's argument)
    prompt,          \* its local `prompt`
    response,        \* its local `response` (also validate_response's argument)
    valid,           \* its local `valid`   (validate_response's first result)
    feedback,        \* its local `feedback` (validate_response's second result)
    result,          \* what the call handed to its caller
    trace,           \* pipeline stages the call went through, in order
    hit,             \* the value the call's membership test found live, or None
    exc,             \* the exception raised inside the call: [type, at]
    embed_calls,     \* embeddings_model.encode calls made by the call
    started,         \* timer reading when the call began
    prev             \* the call before it: [text, result, exc, started], and
                     \* `expires`: when the entry it left for the text of
                     \* the running call expires (0: no entry)

\* HealthAssistant and its running process_query call
hvars == <<now, response_cache, ncalls, pc, text, topics, prompt, response,
           valid, feedback, result, trace, hit, exc, embed_calls, started, prev>>

VARIABLES
    ctime,           \* reading of the timer of CerebrasHandler.response_cache
    cerebras_cache,  \* CerebrasHandler.response_cache, entries in link order
    stored_by,       \* for each key of that cache, the request that stored it
    requests,        \* generate_response calls started so far
    cpc,             \* position of the running generate_response call
    creq,            \* its arguments: [query, conversation_history, user_context]
    cret,            \* the tuple it returned: [text, meta]
    completion,      \* its local `response`: the content the LLM returned
    cexc,            \* the exception that left it, or None
    llm_calls,       \* client.chat.completions.create calls it made
    cprev            \* the call before it: [key, is_valid, escaped]

\* CerebrasHandler and its running generate_response call
cvars == <<ctime, cerebras_cache, stored_by, requests, cpc, creq, completion,
           cret, cexc, llm_calls, cprev>>

VARIABLES
    user_preferences,  \* app.user_preferences: sender -> [state, format, pending_query]
    wlog               \* the webhook requests served so far, each with its reply

\* the WhatsApp webhook of app.py
wvars == <<user_preferences, wlog>>

VARIABLES
    tw_pc,          \* position of the send_message_parts call
    tw_text,        \* its argument `text`
    rest_ok,        \* whether client.messages.create succeeded in it
    tw_chunks,      \* its local `chunks`
    tw_sent,        \* the bodies it sent through the REST API
    tw_background,  \* whether it scheduled _send_remaining_parts
    tw_reply        \* the TwiML document it returned

\* TwilioHandler.send_message_parts (both handlers)
tvars == <<tw_pc, tw_text, rest_ok, tw_chunks, tw_sent, tw_background, tw_reply>>

VARIABLES
    audio_buffers,        \* agent.main: participant_id -> buffered frames
    is_processing_voice,  \* agent.main: participant_id -> bool
    voice_enabled,        \* agent.main: participant_id -> bool
    buffer_duration,      \* handle_audio_track's local, per participant (seconds)
    tasks,                \* process_voice_buffer tasks created: [pid, pc, audio_data]
    frames,               \* audio frames delivered so far (a frame's number names its bytes)
    controls,             \* control messages handled so far
    transcribed,          \* voice.transcribe_audio calls: [pid, enabled]
    published             \* voice responses published: [pid, enabled]

\* the LiveKit agent of agent.py
avars == <<audio_buffers, is_processing_voice, voice_enabled, buffer_duration,
           tasks, frames, controls, transcribed, published>>

vars == <<hvars, cvars, wvars, tvars, avars>>

None == "<none>"

-----------------------------------------------------------------------------
(* The components at rest: each specification below runs one component and *)
(* leaves the others as they are after construction.                       *)

\* no generate_response call yet
NoRequest ==
    [query |-> None, conversation_history |-> <<>>,
     user_context |-> [platform |-> None, sender |-> None, format |-> None]]

NoReturn == [text |-> None, meta |-> [is_valid |-> FALSE]]

NoPrevRequest == [key |-> None, is_valid |-> FALSE, escaped |-> FALSE]

\* CerebrasHandler.__init__ (line 21: an empty TTLCache)
CerebrasIdle ==
    /\ ctime = 0
    /\ cerebras_cache = <<>>
    /\ stored_by = <<>>
    /\ requests = 0
    /\ cpc = "idle"
    /\ creq = NoRequest
    /\ completion = None
    /\ cret = NoReturn
    /\ cexc = None
    /\ llm_calls = 0
    /\ cprev = NoPrevRequest

\* the senders of the model
Senders == {"whatsapp:+1234567890", "whatsapp:+1987654321"}

\* app.py line 35: the defaultdict's value for a sender it has not seen
DefaultPreference == [state |-> "asking", format |-> None, pending_query |-> None]

\* app.py at import: no sender has written to the webhook
WebhookIdle ==
    /\ user_preferences = [s \in Senders |-> DefaultPreference]
    /\ wlog = <<>>

\* no send_message_parts call yet
TwilioIdle ==
    /\ tw_pc = "idle"
    /\ tw_text = ""
    /\ rest_ok = FALSE
    /\ tw_chunks = <<>>
    /\ tw_sent = <<>>
    /\ tw_background = FALSE
    /\ tw_reply = None

\* agent.main lines 61-63: three empty dicts; no track, no task
AgentIdle ==
    /\ audio_buffers = <<>>
    /\ is_processing_voice = <<>>
    /\ voice_enabled = <<>>
    /\ buffer_duration = <<>>
    /\ tasks = <<>>
    /\ frames = 0
    /\ controls = 0
    /\ transcribed = <<>>
    /\ published = <<>>

\* everything but the HealthAssistant
outside_health == <<cvars, wvars, tvars, avars>>

\* everything but the CerebrasHandler
outside_cerebras == <<hvars, wvars, tvars, avars>>

\* everything but the webhook
outside_webhook == <<hvars, cvars, tvars, avars>>

\* everything but the TwilioHandlers
outside_twilio == <<hvars, cvars, wvars, avars>>

\* everything but the agent
outside_agent == <<hvars, cvars, wvars, tvars>>

OutsideHealthIdle == CerebrasIdle /\ WebhookIdle /\ TwilioIdle /\ AgentIdle

-----------------------------------------------------------------------------
(* Python string primitives                                                *)

UpperLetters == "ABCDEFGHIJKLMNOPQRSTUVWXYZ"
LowerLetters == "abcdefghijklmnopqrstuvwxyz"
Whitespace == {" ", "\n", "\t", "\r"}

CharAt(s, i) == SubSeq(s, i, i)

LowerTable ==
    [c \in { CharAt(UpperLetters, k) : k \in 1..Len(UpperLetters) } |->
        CharAt(LowerLetters, CHOOSE k \in 1..Len(UpperLetters) : CharAt(UpperLetters, k) = c)]

\* str.lower() of one character
LowerChar(c) == IF c \in DOMAIN LowerTable THEN LowerTable[c] ELSE c

\* str.lower() of s[i..j], by halves
RECURSIVE LowerRange(_, _, _)
LowerRange(s, i, j) ==
    IF i > j THEN ""
    ELSE IF i = j THEN LowerChar(CharAt(s, i))
    ELSE LET m == (i + j) \div 2 IN LowerRange(s, i, m) \o LowerRange(s, m + 1, j)

\* str.lower()
lower(s) == LowerRange(s, 1, Len(s))

\* `sub in s`
Contains(s, sub) ==
    \E i \in 1..(Len(s) - Len(sub) + 1) : SubSeq(s, i, i + Len(sub) - 1) = sub

\* len(s.split()): maximal runs of non-whitespace characters
WordCount(s) ==
    Cardinality({ i \in 1..Len(s) :
                    /\ CharAt(s, i) \notin Whitespace
                    /\ (i = 1 \/ CharAt(s, i - 1) \in Whitespace) })

\* len(s.split('\n'))
LineCount(s) == Cardinality({ i \in 1..Len(s) : CharAt(s, i) = "\n" }) + 1

\* sep.join(parts)
RECURSIVE Join(_, _)
Join(sep, parts) ==
    IF parts = <<>> THEN ""
    ELSE IF Len(parts) = 1 THEN parts[1]
    ELSE parts[1] \o sep \o Join(sep, Tail(parts))

\* [x for x in seq if Keep(x)]
RECURSIVE SelectIn(_, _)
SelectIn(seq, set) ==
    IF seq = <<>> THEN <<>>
    ELSE (IF Head(seq) \in set THEN <<Head(seq)>> ELSE <<>>) \o SelectIn(Tail(seq), set)

-----------------------------------------------------------------------------
(* Configuration loaded by HealthAssistant.__init__                        *)

\* config/health_categories.json, in file order (the order every dict
\* derived from it iterates in).  Thresholds in hundredths.
CategoryOrder == <<"nutrition", "fitness", "skincare">>

categories ==
    [c \in {"nutrition", "fitness", "skincare"} |->
        CASE c = "nutrition" -> [threshold |-> 30, requires_disclaimer |-> TRUE,
                                 professional_referral |-> <<"registered dietitian">>]
          [] c = "fitness"   -> [threshold |-> 40, requires_disclaimer |-> FALSE,
                                 professional_referral |-> <<>>]
          [] c = "skincare"  -> [threshold |-> 35, requires_disclaimer |-> FALSE,
                                 professional_referral |-> <<"Dermatologist">>]]

\* config/prompt_templates.json
prompts ==
    [base_prompt |-> "You are a health and wellness assistant.",
     category_prompts |->
        [c \in {"nutrition", "fitness"} |->
            IF c = "nutrition" THEN "Give balanced nutrition guidance."
                               ELSE "Give safe exercise guidance."],
     safety_guidelines |->
        [medical_emergency |-> "In an emergency tell the user to call emergency services."]]

\* config/disclaimer_templates.json
disclaimers ==
    [general |-> [educational |-> "This information is for educational purposes only."],
     category_specific |->
        [c \in {"nutrition", "skincare"} |->
            [general |-> IF c = "nutrition" THEN "Dietary needs vary by person."
                                            ELSE "Skin reactions vary by person."]]]

-----------------------------------------------------------------------------
(* Queries and the embedding engine                                        *)

\* The query texts of the model, in a fixed order.
Texts == <<"What's the weather like today?",
           "What's a good diet for weight loss?",
           "How many calories does jogging burn?",
           "Best sunscreen for a daily run?",
           "registered dietitian">>

TextSet == { Texts[i] : i \in 1..Len(Texts) }

\* float(cosine_similarity(embedding(text), category_embeddings[category])), in
\* hundredths.  The sentence-transformer is opaque: its results are a table.
\* 30 for "nutrition" is a similarity equal to the threshold; 101 is the float
\* rounding of a similarity of 1 (a text parallel to the category vector).
similarity(t, category) ==
    CASE t = Texts[1] -> (CASE category = "nutrition" -> 10 [] category = "fitness" -> 5  [] OTHER -> 8)
      [] t = Texts[2] -> (CASE category = "nutrition" -> 55 [] category = "fitness" -> 38 [] OTHER -> 12)
      [] t = Texts[3] -> (CASE category = "nutrition" -> 30 [] category = "fitness" -> 62 [] OTHER -> 5)
      [] t = Texts[4] -> (CASE category = "nutrition" -> 22 [] category = "fitness" -> 45 [] OTHER -> 50)
      [] OTHER        -> (CASE category = "nutrition" -> 101 [] category = "fitness" -> 15 [] OTHER -> 9)

\* hash(text): an integer per text (no two texts of the model collide)
hash(t) == CHOOSE i \in 1..Len(Texts) : Texts[i] = t

-----------------------------------------------------------------------------
(* TopicScore and classify_health_topic                                    *)

\* pydantic: confidence: float = Field(..., ge=0.0, le=1.0)
TopicScoreAccepts(confidence) == confidence >= 0 /\ confidence <= 100

TopicScore(confidence, requires_disclaimer, referrals) ==
    [confidence |-> confidence,
     requires_disclaimer |-> requires_disclaimer,
     referrals |-> referrals]

EmptyDict == [c \in {} |-> TopicScore(0, FALSE, <<>>)]

\* mutant: the comparison written with >=
ExceedsThreshold_ge(sim, threshold) == sim >= threshold

\* `if similarity > self.categories[category]['threshold']`
ExceedsThreshold(sim, threshold) == sim > threshold

\* the categories the loop of classify_health_topic builds a TopicScore for
Matched(t) ==
    { c \in DOMAIN categories : ExceedsThreshold(similarity(t, c), categories[c].threshold) }

\* mutant: errors caught inside the classifier and turned into "no topics"
classify_catches_locally(t, engine_ok) ==
    IF ~engine_ok \/ \E c \in Matched(t) : ~TopicScoreAccepts(similarity(t, c))
    THEN [exc |-> None, scores |-> EmptyDict]
    ELSE [exc |-> None,
          scores |-> [c \in Matched(t) |->
                        TopicScore(similarity(t, c),
                                   categories[c].requires_disclaimer,
                                   categories[c].professional_referral)]]

\* classify_health_topic(text): the scores dict, or the exception that leaves
\* it (there is no try/except in it): the ValidationError that the TopicScore
\* constructor raises out of the loop, or an error of the embedding engine.
\* engine_ok = FALSE: embeddings_model.encode or cosine_similarity raises
classify_health_topic(t, engine_ok) ==
    IF ~engine_ok
    THEN [exc |-> "RuntimeError", scores |-> EmptyDict]
    ELSE IF \E c \in Matched(t) : ~TopicScoreAccepts(similarity(t, c))
    THEN [exc |-> "ValidationError", scores |-> EmptyDict]
    ELSE [exc |-> None,
          scores |-> [c \in Matched(t) |->
                        TopicScore(similarity(t, c),
                                   categories[c].requires_disclaimer,
                                   categories[c].professional_referral)]]

\* iteration order of a topics dict: insertion order = catalog order
Keys(d) == SelectIn(CategoryOrder, DOMAIN d)

-----------------------------------------------------------------------------
(* Prompt composer                                                         *)

RECURSIVE MapCategoryPrompts(_)
MapCategoryPrompts(keys) ==
    IF keys = <<>> THEN <<>>
    ELSE (IF Head(keys) \in DOMAIN prompts.category_prompts
          THEN <<prompts.category_prompts[Head(keys)]>> ELSE <<>>)
         \o MapCategoryPrompts(Tail(keys))

RECURSIVE MapCategoryDisclaimers(_)
MapCategoryDisclaimers(keys) ==
    IF keys = <<>> THEN <<>>
    ELSE (IF Head(keys) \in DOMAIN disclaimers.category_specific
          THEN <<disclaimers.category_specific[Head(keys)].general>> ELSE <<>>)
         \o MapCategoryDisclaimers(Tail(keys))

_get_relevant_disclaimers(d) ==
    <<disclaimers.general.educational>> \o MapCategoryDisclaimers(Keys(d))

\* mutant: all() in place of any()
AllRequireDisclaimer(d) == \A c \in DOMAIN d : d[c].requires_disclaimer

AnyRequiresDisclaimer(d) == \E c \in DOMAIN d : d[c].requires_disclaimer

\* mutant: the disclaimers placed ahead of the category prompts
prompt_parts_disclaimers_first(d) ==
    <<prompts.base_prompt>>
    \o _get_relevant_disclaimers(d)
    \o MapCategoryPrompts(Keys(d))
    \o (IF AnyRequiresDisclaimer(d)
        THEN <<prompts.safety_guidelines.medical_emergency>> ELSE <<>>)

prompt_parts(d) ==
    <<prompts.base_prompt>>
    \o MapCategoryPrompts(Keys(d))
    \o _get_relevant_disclaimers(d)
    \o (IF AnyRequiresDisclaimer(d)
        THEN <<prompts.safety_guidelines.medical_emergency>> ELSE <<>>)

get_dynamic_prompt(d) == Join("\n\n", prompt_parts(d))

-----------------------------------------------------------------------------
(* Response validator                                                      *)

MinWords == 20
MinLines == 2

ISSUE_CONSULT  == "Missing healthcare consultation recommendation"
ISSUE_ADVICE   == "Missing medical advice disclaimer"
ISSUE_REFERRAL == "Missing professional referral suggestion"
ISSUE_SHORT    == "Response too short - may lack sufficient detail"
ISSUE_FORMAT   == "Response lacks proper formatting/structure"

\* [ref for topic in topics.values() for ref in topic.referrals]
RECURSIVE FlattenReferrals(_, _)
FlattenReferrals(d, keys) ==
    IF keys = <<>> THEN <<>>
    ELSE d[Head(keys)].referrals \o FlattenReferrals(d, Tail(keys))

Referrals(d) == FlattenReferrals(d, Keys(d))

\* mutant: the word limit off by one
TooShort_off_by_one(r) == WordCount(r) < MinWords - 1

TooShort(r) == WordCount(r) < MinWords

\* mutant: the medical-advice check nested under the consultation check, so
\* that it runs only when "consult" is present
DisclaimerIssues_nested(low, d) ==
    IF AnyRequiresDisclaimer(d)
    THEN (IF ~Contains(low, "consult") THEN <<ISSUE_CONSULT>>
          ELSE IF ~Contains(low, "not medical advice") THEN <<ISSUE_ADVICE>>
          ELSE <<>>)
    ELSE <<>>

\* lines 138-142; low is response.lower()
DisclaimerIssues(low, d) ==
    IF AnyRequiresDisclaimer(d)
    THEN (IF ~Contains(low, "consult") THEN <<ISSUE_CONSULT>> ELSE <<>>)
         \o (IF ~Contains(low, "not medical advice") THEN <<ISSUE_ADVICE>> ELSE <<>>)
    ELSE <<>>

\* mutant: the referral term compared without lower()
ReferralIssues_case_sensitive(low, d) ==
    LET referrals == Referrals(d) IN
    IF /\ referrals # <<>>
       /\ ~\E i \in 1..Len(referrals) : Contains(low, referrals[i])
    THEN <<ISSUE_REFERRAL>> ELSE <<>>

\* lines 145-147; low is response.lower()
ReferralIssues(low, d) ==
    LET referrals == Referrals(d) IN
    IF /\ referrals # <<>>
       /\ ~\E i \in 1..Len(referrals) : Contains(low, lower(referrals[i]))
    THEN <<ISSUE_REFERRAL>> ELSE <<>>

LengthIssues(r) == IF TooShort(r) THEN <<ISSUE_SHORT>> ELSE <<>>

StructureIssues(r) == IF LineCount(r) < MinLines THEN <<ISSUE_FORMAT>> ELSE <<>>

\* mutant: the length and structure checks run before the topic checks
issues_reordered(r, d) ==
    LET low == lower(r) IN
    LengthIssues(r) \o StructureIssues(r) \o DisclaimerIssues(low, d) \o ReferralIssues(low, d)

issues(r, d) ==
    LET low == lower(r) IN
    DisclaimerIssues(low, d) \o ReferralIssues(low, d) \o LengthIssues(r) \o StructureIssues(r)

\* validate_response(response, topics) -> (valid, feedback)
validate_response(r, d) ==
    LET found == issues(r, d) IN
    [valid |-> Len(found) = 0,
     feedback |-> IF found # <<>> THEN Join("\n", found) ELSE ""]

-----------------------------------------------------------------------------
(* TTLCache(maxsize=1000, ttl=24*60*60)                                    *)

maxsize == 1000
ttl == 24 * 60 * 60

\* Bounds of the model
MaxCalls == 2       \* process_query calls in one behaviour
MaxHorizon == 2     \* the clock runs up to MaxHorizon * ttl

\* the clock moves by half a TTL or by a whole TTL
TimeSteps == {ttl \div 2, ttl}

\* an entry is live while timer() < link.expires
Live(e, t) == t < e.expires

HasKey(cache, key) == \E i \in 1..Len(cache) : cache[i].key = key

Entry(cache, key) == cache[CHOOSE i \in 1..Len(cache) : cache[i].key = key]

Without(cache, key) == SelectSeq(cache, LAMBDA e : e.key # key)

\* mutant: the expiry test inverted
cache_contains_expired(cache, key, t) == HasKey(cache, key) /\ ~Live(Entry(cache, key), t)

\* TTLCache.__contains__: `cache_key in self.response_cache`
cache_contains(cache, key, t) == HasKey(cache, key) /\ Live(Entry(cache, key), t)

\* mutant: a read that drops the entry it finds expired
cache_getitem_evicts(cache, key, t) ==
    IF ~HasKey(cache, key)
    THEN [exc |-> "KeyError", value |-> None, cache |-> cache]
    ELSE IF ~Live(Entry(cache, key), t)
    THEN [exc |-> "KeyError", value |-> None, cache |-> Without(cache, key)]
    ELSE [exc |-> None, value |-> Entry(cache, key).value,
          cache |-> Without(cache, key) \o <<Entry(cache, key)>>]

\* TTLCache.__getitem__: `self.response_cache[cache_key]`; the link is moved to
\* the end, and an expired or missing key raises KeyError
cache_getitem(cache, key, t) ==
    IF ~HasKey(cache, key)
    THEN [exc |-> "KeyError", value |-> None, cache |-> cache]
    ELSE IF ~Live(Entry(cache, key), t)
    THEN [exc |-> "KeyError", value |-> None,
          cache |-> Without(cache, key) \o <<Entry(cache, key)>>]
    ELSE [exc |-> None, value |-> Entry(cache, key).value,
          cache |-> Without(cache, key) \o <<Entry(cache, key)>>]

\* TTLCache.expire(time)
expire(cache, t) == SelectSeq(cache, LAMBDA e : Live(e, t))

\* Cache.__setitem__'s `while self.currsize + size > maxsize: self.popitem()`
RECURSIVE MakeRoom(_)
MakeRoom(cache) == IF Len(cache) + 1 > maxsize THEN MakeRoom(Tail(cache)) ELSE cache

\* TTLCache.__setitem__: `self.response_cache[cache_key] = response`
cache_setitem(cache, key, value, t) ==
    LET live == expire(cache, t)
        room == IF HasKey(live, key) THEN Without(live, key) ELSE MakeRoom(live)
    IN  room \o <<[key |-> key, value |-> value, expires |-> t + ttl]>>

-----------------------------------------------------------------------------
(* HealthAssistant.process_query                                           *)

REDIRECT ==
    "I'm a specialized health and wellness assistant. "
    \o "I notice your question isn't directly related to health or wellness. "
    \o "Would you like to discuss how this topic might relate to your health, "
    \o "or would you prefer to ask a different health-related question?"

APOLOGY ==
    "I apologize, but I encountered an error processing your request. "
    \o "Please try again or rephrase your question."

PLACEHOLDER == "This is a placeholder response. Implementation pending."

\* result of a call whose exception reached the caller
Escaped == "<exception>"

\* statements of the try block (lines 165-201), other than the classification,
\* that call into the cache, the configuration or the validator and can fail
\* unexpectedly
Fallible == {"L168", "L170", "L186", "L193", "L199"}

\* mutant: a handler that catches KeyError only
except_KeyError(e) == IF e = "KeyError" THEN APOLOGY ELSE Escaped

\* `except Exception as e:` (lines 203-208): what the call hands to its caller
except_Exception(e) == APOLOGY

\* `response = "This is a placeholder response. Implementation pending."`
generate(p, t) == PLACEHOLDER

\* mutant: the disclaimer appended to the returned text (not to the cached
\* one) when validation failed
final_response_annotated(r, ok) ==
    IF ok THEN r ELSE r \o "\n\n" \o disclaimers.general.educational

\* the text handed back at line 201 after validation
final_response(r, ok) == r

\* the guard on the cache write of line 199 (there is none)
cache_write_allowed(ok) == TRUE

\* mutant: `if topics is None:`
not_topics_is_None(d) == FALSE

\* mutant: `if topics:`
not_topics_inverted(d) == DOMAIN d # {}

\* `if not topics:` (line 176)
not_topics(d) == DOMAIN d = {}

\* mutant: the regeneration loop of the TODO
after_validation_retry(ok) == IF ok THEN "L199" ELSE "L190"

\* where control goes after lines 193-196: on to the cache write, whatever
\* the verdict (`# TODO: Regenerate response with feedback`)
after_validation(ok) == "L199"

NoExc == [type |-> None, at |-> None]

NoCall == [text |-> None, result |-> None, exc |-> None, started |-> 0, expires |-> 0]

\* HealthAssistant.__init__
HealthIdle ==
    /\ now = 0
    /\ response_cache = <<>>
    /\ ncalls = 0
    /\ pc = "idle"
    /\ text = None
    /\ topics = EmptyDict
    /\ prompt = None
    /\ response = None
    /\ valid = FALSE
    /\ feedback = None
    /\ result = None
    /\ trace = <<>>
    /\ hit = None
    /\ exc = NoExc
    /\ embed_calls = 0
    /\ started = 0
    /\ prev = NoCall

Init == HealthIdle /\ OutsideHealthIdle

\* time passes (between any two statements)
Tick ==
    /\ \E d \in TimeSteps :
          /\ now + d <= MaxHorizon * ttl
          /\ now' = now + d
    /\ UNCHANGED outside_health
    /\ UNCHANGED <<response_cache, ncalls, pc, text, topics, prompt, response,
                   valid, feedback, result, trace, hit, exc,
                   embed_calls, started, prev>>

\* a caller awaits process_query(text)
Call ==
    /\ pc = "idle"
    /\ ncalls < MaxCalls
    /\ \E t \in TextSet :
          /\ text' = t
          /\ prev' = [text |-> text, result |-> result, exc |-> exc.type,
                      started |-> started,
                      expires |-> IF HasKey(response_cache, hash(t))
                                  THEN Entry(response_cache, hash(t)).expires ELSE 0]
    /\ ncalls' = ncalls + 1
    /\ pc' = "L168"
    /\ topics' = EmptyDict
    /\ prompt' = None
    /\ response' = None
    /\ valid' = FALSE
    /\ feedback' = None
    /\ result' = None
    /\ trace' = <<"RECEIVED">>
    /\ hit' = None
    /\ exc' = NoExc
    /\ embed_calls' = 0
    /\ started' = now
    /\ UNCHANGED outside_health
    /\ UNCHANGED <<now, response_cache>>

\* leaving the try block through the handler
Raise(type) ==
    /\ exc' = [type |-> type, at |-> pc]
    /\ result' = except_Exception(type)
    /\ pc' = "idle"

\* an unexpected error in the statement about to run (cache failure, missing
\* configuration key, malformed topics ...)
Unexpected ==
    /\ pc \in Fallible
    /\ Raise("Exception")
    /\ UNCHANGED outside_health
    /\ UNCHANGED <<now, response_cache, ncalls, text, topics, prompt, response,
                   valid, feedback, trace, hit,
                   embed_calls, started, prev>>

\* lines 167-168: cache_key = hash(text); if cache_key in self.response_cache
CacheTest ==
    /\ pc = "L168"
    /\ IF cache_contains(response_cache, hash(text), now)
       THEN /\ pc' = "L170"
            /\ hit' = Entry(response_cache, hash(text)).value
       ELSE /\ pc' = "L173"
            /\ hit' = None
    /\ UNCHANGED outside_health
    /\ UNCHANGED <<now, response_cache, ncalls, text, topics, prompt, response,
                   valid, feedback, result, trace, exc,
                   embed_calls, started, prev>>

\* line 170: return self.response_cache[cache_key]
CacheRead ==
    /\ pc = "L170"
    /\ LET got == cache_getitem(response_cache, hash(text), now) IN
          /\ response_cache' = got.cache
          /\ IF got.exc # None
             THEN /\ Raise(got.exc)
                  /\ trace' = trace
             ELSE /\ result' = got.value
                  /\ trace' = Append(trace, "RETURNED")
                  /\ pc' = "idle"
                  /\ exc' = exc
    /\ UNCHANGED outside_health
    /\ UNCHANGED <<now, ncalls, text, topics, prompt, response, valid, feedback, hit,
                   embed_calls, started, prev>>

\* line 173: topics = await self.classify_health_topic(text)
Classify ==
    /\ pc = "L173"
    /\ embed_calls' = embed_calls + 1
    /\ \E engine_ok \in BOOLEAN :
       LET got == classify_health_topic(text, engine_ok) IN
          IF got.exc # None
          THEN /\ Raise(got.exc)
               /\ UNCHANGED <<topics, trace>>
          ELSE /\ topics' = got.scores
               /\ trace' = Append(trace, "CLASSIFIED")
               /\ pc' = "L176"
               /\ UNCHANGED <<result, exc>>
    /\ UNCHANGED outside_health
    /\ UNCHANGED <<now, response_cache, ncalls, text, prompt, response, valid,
                   feedback, hit,
                   started, prev>>

\* lines 176-183: if not topics: return the redirect message
CheckTopics ==
    /\ pc = "L176"
    /\ IF not_topics(topics)
       THEN /\ result' = REDIRECT
            /\ trace' = Append(trace, "REDIRECTED")
            /\ pc' = "idle"
       ELSE /\ pc' = "L186"
            /\ UNCHANGED <<result, trace>>
    /\ UNCHANGED outside_health
    /\ UNCHANGED <<now, response_cache, ncalls, text, topics, prompt, response,
                   valid, feedback, hit, exc,
                   embed_calls, started, prev>>

\* line 186: prompt = await self.get_dynamic_prompt(topics)
Compose ==
    /\ pc = "L186"
    /\ prompt' = get_dynamic_prompt(topics)
    /\ trace' = Append(trace, "PROMPTED")
    /\ pc' = "L190"
    /\ UNCHANGED outside_health
    /\ UNCHANGED <<now, response_cache, ncalls, text, topics, response, valid,
                   feedback, result, hit, exc,
                   embed_calls, started, prev>>

\* lines 188-190: the generator (a placeholder in the source)
Generate ==
    /\ pc = "L190"
    /\ response' = generate(prompt, text)
    /\ trace' = Append(trace, "GENERATED")
    /\ pc' = "L193"
    /\ UNCHANGED outside_health
    /\ UNCHANGED <<now, response_cache, ncalls, text, topics, prompt, valid,
                   feedback, result, hit, exc,
                   embed_calls, started, prev>>

\* lines 193-196: valid, feedback = await self.validate_response(response, topics)
Validate ==
    /\ pc = "L193"
    /\ LET report == validate_response(response, topics) IN
          /\ valid' = report.valid
          /\ feedback' = report.feedback
          /\ pc' = after_validation(report.valid)
    /\ trace' = Append(trace, "VALIDATED")
    /\ UNCHANGED outside_health
    /\ UNCHANGED <<now, response_cache, ncalls, text, topics, prompt, response,
                   result, hit, exc,
                   embed_calls, started, prev>>

\* line 199: self.response_cache[cache_key] = response
CacheWrite ==
    /\ pc = "L199"
    /\ IF cache_write_allowed(valid)
       THEN /\ response_cache' = cache_setitem(response_cache, hash(text), response, now)
            /\ trace' = Append(trace, "CACHED")
       ELSE UNCHANGED <<response_cache, trace>>
    /\ pc' = "L201"
    /\ UNCHANGED outside_health
    /\ UNCHANGED <<now, ncalls, text, topics, prompt, response, valid, feedback,
                   result, hit, exc,
                   embed_calls, started, prev>>

\* line 201: return response
Return ==
    /\ pc = "L201"
    /\ result' = final_response(response, valid)
    /\ trace' = Append(trace, "RETURNED")
    /\ pc' = "idle"
    /\ UNCHANGED outside_health
    /\ UNCHANGED <<now, response_cache, ncalls, text, topics, prompt, response,
                   valid, feedback, hit, exc,
                   embed_calls, started, prev>>

Next ==
    \/ Tick
    \/ Call
    \/ Unexpected
    \/ CacheTest
    \/ CacheRead
    \/ Classify
    \/ CheckTopics
    \/ Compose
    \/ Generate
    \/ Validate
    \/ CacheWrite
    \/ Return

Spec == Init /\ [][Next]_vars

-----------------------------------------------------------------------------
(* Properties of process_query                                             *)

Stages == { trace[i] : i \in 1..Len(trace) }

\* the running call has handed its result to the caller
Done == pc = "idle" /\ result # None

\* C1: when classify_health_topic returns, a category is in the match set if
\* and only if the similarity of the query to it is strictly greater than the
\* category's threshold; a similarity equal to the threshold is no match.
C1_StrictThreshold ==
    "CLASSIFIED" \in Stages =>
        \A c \in DOMAIN categories :
            (c \in DOMAIN topics) <=> (similarity(text, c) > categories[c].threshold)

\* a classification has returned some topic but not the category the query
\* ties with
C1_Witness ==
    /\ pc = "L176"
    /\ DOMAIN topics # {}
    /\ \E c \in DOMAIN categories :
          similarity(text, c) = categories[c].threshold /\ c \notin DOMAIN topics

\* C2: when classification yields an empty match set, process_query returns
\* the redirect message and never runs the prompt composer, the generator or
\* the validator for that query.
C2_EmptyMatchRedirects ==
    ("CLASSIFIED" \in Stages /\ DOMAIN topics = {}) =>
        /\ trace \in {<<"RECEIVED", "CLASSIFIED">>,
                      <<"RECEIVED", "CLASSIFIED", "REDIRECTED">>}
        /\ prompt = None /\ response = None /\ feedback = None
        /\ pc \in {"L176", "idle"}
        /\ pc = "idle" => result = REDIRECT /\ "REDIRECTED" \in Stages

C2_Witness ==
    /\ Done
    /\ "CLASSIFIED" \in Stages
    /\ DOMAIN topics = {}
    /\ result = REDIRECT

\* C3: every entry of the response cache holds a response that passed
\* validation for the topics of its query.
C3_CacheHoldsValidated ==
    \A i \in 1..Len(response_cache) :
        validate_response(
            response_cache[i].value,
            classify_health_topic(Texts[response_cache[i].key], TRUE).scores).valid

\* C4: when the membership test of a call finds an unexpired entry for the text
\* (stored by an earlier call), the call returns exactly that entry without
\* classifying, composing or generating; when it finds none (never stored, or
\* expired) the pipeline runs again from the classification.  Calls that an
\* injected fault interrupts are left out.
C4_CacheRoundTrip ==
    (Done /\ exc.type \notin {"Exception", "RuntimeError"}) =>
        IF hit # None
        THEN result = hit /\ trace = <<"RECEIVED", "RETURNED">>
        ELSE "CLASSIFIED" \in Stages \/ exc.at = "L173"

\* C5: when validation of the generated response failed, process_query returns
\* the generated response with the educational disclaimer appended; when it
\* passed, it returns the response as generated.
C5_InvalidIsAnnotated ==
    (Done /\ "VALIDATED" \in Stages /\ "RETURNED" \in Stages) =>
        IF valid
        THEN result = response
        ELSE /\ Len(result) > Len(response)
             /\ SubSeq(result, 1, Len(response)) = response
             /\ Contains(result, disclaimers.general.educational)

\* C8: no exception raised inside process_query reaches the caller: every one
\* ends the call with the apology message as its ordinary result.
C8_NoExceptionEscapes ==
    /\ result # Escaped
    /\ exc.type # None => pc = "idle" /\ result = APOLOGY

\* a failed cache write and a failed cached read both ended in the apology
C8_Witness ==
    /\ Done
    /\ exc.at \in {"L170", "L199"}
    /\ result = APOLOGY

\* the classifier cannot build a TopicScore for this text
SimilarityOutOfRange(t) ==
    \E c \in DOMAIN categories :
        /\ similarity(t, c) > categories[c].threshold
        /\ (similarity(t, c) < 0 \/ similarity(t, c) > 100)

\* C9 as claimed: an error during embedding or similarity computation degrades
\* to "no topics matched" and process_query returns the redirect message.
C9_ClassificationErrorRedirects ==
    (Done /\ exc.at = "L173") => result = REDIRECT

\* C9 as amended: an error during embedding or similarity computation is not
\* caught in classify_health_topic; it reaches the handler of process_query,
\* which returns the apology message, and no classification result exists.
C9_ClassificationErrorApologizes ==
    (/\ Done
     /\ hit = None
     /\ exc.at # "L168"
     /\ (SimilarityOutOfRange(text) \/ exc.type = "RuntimeError")) =>
        /\ result = APOLOGY
        /\ exc.at = "L173"
        /\ trace = <<"RECEIVED">>
        /\ DOMAIN topics = {}

C9_Witness ==
    /\ Done
    /\ exc = [type |-> "ValidationError", at |-> "L173"]
    /\ result = APOLOGY

StageOrder == <<"RECEIVED", "CLASSIFIED", "REDIRECTED", "PROMPTED", "GENERATED",
                "VALIDATED", "ANNOTATED", "CACHED", "RETURNED">>

Rank(stage) == CHOOSE k \in 1..Len(StageOrder) : StageOrder[k] = stage

\* C10: a call passes through the stages at most once each and only in the
\* order RECEIVED, CLASSIFIED, REDIRECTED or PROMPTED, GENERATED, VALIDATED,
\* (ANNOTATED), CACHED, RETURNED; REDIRECTED is terminal, no stage is entered
\* again and a failed validation causes no second generation.
C10_LinearPipeline ==
    /\ \A i \in 1..Len(trace) : trace[i] \in { StageOrder[k] : k \in 1..Len(StageOrder) }
    /\ \A i \in 1..(Len(trace) - 1) : Rank(trace[i]) < Rank(trace[i + 1])
    /\ trace # <<>> => trace[1] = "RECEIVED"
    /\ \A i \in 1..(Len(trace) - 1) : trace[i] # "REDIRECTED"
    /\ \A i \in 1..(Len(trace) - 1) :
          /\ trace[i] = "CLASSIFIED" => trace[i + 1] \in {"REDIRECTED", "PROMPTED"}
          /\ trace[i] = "PROMPTED" => trace[i + 1] = "GENERATED"
          /\ trace[i] = "GENERATED" => trace[i + 1] = "VALIDATED"
          /\ trace[i] = "VALIDATED" => trace[i + 1] \in {"ANNOTATED", "CACHED"}
          /\ trace[i] = "CACHED" => trace[i + 1] = "RETURNED"

\* a call whose validation failed went once through every stage
C10_Witness ==
    /\ Done
    /\ ~valid
    /\ trace = <<"RECEIVED", "CLASSIFIED", "PROMPTED", "GENERATED", "VALIDATED",
                 "CACHED", "RETURNED">>

\* the call is the second of two calls with the same text, both of which
\* came back without an exception
SecondOfTwo ==
    /\ Done
    /\ prev.text = text
    /\ prev.result # None
    /\ prev.exc = None
    /\ exc.type = None

C18_ComposerNeverEmpty ==
    (pc = "L186" \/ "PROMPTED" \in Stages \/ prompt # None) => DOMAIN topics # {}

\* the composer has run for a call that matched two topics
C18_Witness ==
    /\ pc = "L190"
    /\ prompt = get_dynamic_prompt(topics)
    /\ Cardinality(DOMAIN topics) = 2

\* the call was not cut short by an injected fault
NoInjectedFault == exc.type \notin {"Exception", "RuntimeError"}

\* C19: every TopicScore that classify_health_topic returns has a confidence
\* in [0,1] strictly above its category's threshold and carries the catalog's
\* requires_disclaimer and referrals; and classifying a query whose similarity
\* is outside [0,1] but above the threshold completes with a result, not an
\* error.
C19_TopicScoresWellFormed ==
    /\ "CLASSIFIED" \in Stages =>
          \A c \in DOMAIN topics :
              /\ topics[c].confidence >= 0 /\ topics[c].confidence <= 100
              /\ topics[c].confidence > categories[c].threshold
              /\ topics[c].requires_disclaimer = categories[c].requires_disclaimer
              /\ topics[c].referrals = categories[c].professional_referral
    /\ (Done /\ hit = None /\ NoInjectedFault /\ SimilarityOutOfRange(text)) =>
          /\ "CLASSIFIED" \in Stages
          /\ exc.type = None

\* every call that has ended while the entry of its text is unexpired
\* returned the value of that entry
SameResponse ==
    (Done /\ exc.type # "Exception" /\ cache_contains(response_cache, hash(text), now)) =>
        result = Entry(response_cache, hash(text)).value

EntrySet(cache) == { cache[i] : i \in 1..Len(cache) }

-----------------------------------------------------------------------------
(* validate_response as a function of its arguments                        *)

\* Sentences a response is made of, in the order they appear in it.
Sentences ==
    <<"Here's a healthy diet plan.",
      "Important: This information is for educational purposes only.",
      "Please consult with a healthcare provider or registered dietitian.",
      "This is NOT medical advice.",
      "A dermatologist can check your skin.",
      "This is a placeholder response. Implementation pending.",
      "Here's a diet plan without any disclaimers.",
      "Talk to your doctor before you change your routine.">>

\* Bound of the model: the responses use the first MaxSentences sentences
MaxSentences == 7

SentenceCount == IF MaxSentences < Len(Sentences) THEN MaxSentences ELSE Len(Sentences)

RECURSIVE Pick(_, _)
Pick(chosen, k) ==
    IF k > SentenceCount THEN <<>>
    ELSE (IF k \in chosen THEN <<Sentences[k]>> ELSE <<>>) \o Pick(chosen, k + 1)

\* every selection of sentences, joined by spaces or by line breaks
Responses ==
    { Join(sep, Pick(chosen, 1)) : sep \in {" ", "\n"}, chosen \in SUBSET (1..SentenceCount) }

\* the topics dicts a classification over the catalog can produce
TopicDicts ==
    { [c \in S |-> TopicScore(categories[c].threshold + 1,
                              categories[c].requires_disclaimer,
                              categories[c].professional_referral)] :
      S \in SUBSET (DOMAIN categories) }

InitValidate ==
    /\ now = 0
    /\ response_cache = <<>>
    /\ ncalls = 0
    /\ pc = "validator"
    /\ text = None
    /\ topics \in TopicDicts
    /\ prompt = None
    /\ response \in Responses
    /\ valid = FALSE
    /\ feedback = None
    /\ result = None
    /\ trace = <<>>
    /\ hit = None
    /\ exc = NoExc
    /\ embed_calls = 0
    /\ started = 0
    /\ prev = NoCall
    /\ OutsideHealthIdle

\* a caller awaits validate_response(response, topics)
CallValidate ==
    /\ pc = "validator"
    /\ LET report == validate_response(response, topics) IN
          /\ valid' = report.valid
          /\ feedback' = report.feedback
    /\ pc' = "validated"
    /\ UNCHANGED outside_health
    /\ UNCHANGED <<now, response_cache, ncalls, text, topics, prompt, response,
                   result, trace, hit, exc,
                   embed_calls, started, prev>>

\* a caller awaits get_dynamic_prompt(topics)
CallCompose ==
    /\ pc = "validator"
    /\ prompt' = get_dynamic_prompt(topics)
    /\ pc' = "composed"
    /\ UNCHANGED outside_health
    /\ UNCHANGED <<now, response_cache, ncalls, text, topics, response, valid,
                   feedback, result, trace, hit, exc, embed_calls, started, prev>>

NextValidate ==
    \/ CallValidate
    \/ CallCompose

SpecValidate == InitValidate /\ [][NextValidate]_vars

\* validate_response has returned for the current response and topics
Validated == pc = "validated"

\* C6: for a response that contains neither "consult" nor "not medical advice"
\* (in any letter case), when some matched topic requires a disclaimer,
\* validate_response returns valid = false and a feedback that names a
\* disclaimer issue.
C6_MissingDisclaimerRejected ==
    (/\ Validated
     /\ \E c \in DOMAIN topics : topics[c].requires_disclaimer
     /\ LET low == lower(response) IN
           ~Contains(low, "consult") /\ ~Contains(low, "not medical advice")) =>
        /\ valid = FALSE
        /\ Contains(lower(feedback), "disclaimer")

\* a long, structured response mentioning the referral is rejected only for
\* the two disclaimer issues
C6_Witness ==
    /\ Validated
    /\ DOMAIN topics = {"nutrition", "fitness"}
    /\ valid = FALSE
    /\ LET low == lower(response) IN
          ~Contains(low, "consult") /\ ~Contains(low, "not medical advice")
    /\ WordCount(response) >= MinWords
    /\ valid = FALSE
    /\ feedback = ISSUE_CONSULT \o "\n" \o ISSUE_ADVICE \o "\n" \o ISSUE_REFERRAL

\* C7: a response of fewer than 20 whitespace-separated words is never valid,
\* whatever the topics and whatever disclaimer, consultation or referral text
\* it contains.
C7_ShortResponseRejected ==
    (Validated /\ WordCount(response) < 20) => valid = FALSE

\* a 19-word response with consultation, disclaimer, referral and a line
\* break is rejected for its length alone
C7_Witness ==
    /\ Validated
    /\ WordCount(response) = 19
    /\ \E c \in DOMAIN topics : topics[c].requires_disclaimer
    /\ valid = FALSE
    /\ feedback = ISSUE_SHORT

\* C13: for a topic that requires a disclaimer, validate_response accepts a
\* multi-line response of at least 20 words that says the information is for
\* educational purposes only and recommends consulting a healthcare provider
\* or registered dietitian.
C13_EducationalResponseAccepted ==
    (/\ Validated
     /\ DOMAIN topics = {"nutrition"}
     /\ WordCount(response) >= 20
     /\ LineCount(response) >= 2
     /\ LET low == lower(response) IN
           /\ Contains(low, "for educational purposes only")
           /\ Contains(low, "consult with a healthcare provider or registered dietitian")) =>
        valid = TRUE

\* the issue each check of validate_response reports, from the conditions of
\* the checks themselves
FiredIssues(r, d) ==
    LET low == lower(r)
        needs == \E c \in DOMAIN d : d[c].requires_disclaimer
        named == { c \in DOMAIN d : d[c].referrals # <<>> }
    IN  (IF needs /\ ~Contains(low, "consult") THEN <<ISSUE_CONSULT>> ELSE <<>>)
        \o (IF needs /\ ~Contains(low, "not medical advice") THEN <<ISSUE_ADVICE>> ELSE <<>>)
        \o (IF named # {} /\ \A c \in named : \A i \in 1..Len(d[c].referrals) :
                                  ~Contains(low, lower(d[c].referrals[i]))
            THEN <<ISSUE_REFERRAL>> ELSE <<>>)
        \o (IF WordCount(r) < 20 THEN <<ISSUE_SHORT>> ELSE <<>>)
        \o (IF LineCount(r) < 2 THEN <<ISSUE_FORMAT>> ELSE <<>>)

\* C14: validate_response returns valid = true exactly when none of its checks
\* fires (consultation, medical-advice disclaimer, referral, length, line
\* break), and the feedback lists the fired issues in that order, one a line.
C14_ValidIffNoIssue ==
    Validated =>
        /\ valid = (FiredIssues(response, topics) = <<>>)
        /\ feedback = Join("\n", FiredIssues(response, topics))

\* all five checks fired on one response
C14_Witness ==
    /\ Validated
    /\ valid = FALSE
    /\ feedback = Join("\n", <<ISSUE_CONSULT, ISSUE_ADVICE, ISSUE_REFERRAL,
                               ISSUE_SHORT, ISSUE_FORMAT>>)

\* C15: validate_response reports the missing-referral issue if and only if
\* some matched topic has a referral term and no referral term of any matched
\* topic occurs in the response, letter case ignored; with only empty
\* referral lists it never reports it.
C15_ReferralIssueIff ==
    Validated =>
        (Contains(feedback, ISSUE_REFERRAL) <=>
            /\ \E c \in DOMAIN topics : topics[c].referrals # <<>>
            /\ \A c \in DOMAIN topics : \A i \in 1..Len(topics[c].referrals) :
                  ~Contains(lower(response), lower(topics[c].referrals[i])))

\* the catalog's "Dermatologist" is found in a response that writes it
\* "dermatologist"
C15_Witness ==
    /\ Validated
    /\ DOMAIN topics = {"skincare"}
    /\ Contains(response, "dermatologist")
    /\ ~Contains(response, "Dermatologist")
    /\ ~Contains(feedback, ISSUE_REFERRAL)

\* get_dynamic_prompt has returned for the current topics
Composed == pc = "composed"

\* the matched categories, in iteration order, that are keys of table
RECURSIVE MatchedIn(_, _, _)
MatchedIn(d, table, k) ==
    IF k > Len(CategoryOrder) THEN <<>>
    ELSE (IF CategoryOrder[k] \in DOMAIN d /\ CategoryOrder[k] \in DOMAIN table
          THEN <<CategoryOrder[k]>> ELSE <<>>) \o MatchedIn(d, table, k + 1)

\* C16: for a non-empty matched set the prompt is, in this order: the base
\* prompt, the category prompt of each matched category that has one, the
\* general educational disclaimer (once), the category-specific disclaimer of
\* each matched category that has one; only the safety guideline may follow.
C16_PromptOrder ==
    (Composed /\ DOMAIN topics # {}) =>
        LET withPrompt == MatchedIn(topics, prompts.category_prompts, 1)
            withDisclaimer == MatchedIn(topics, disclaimers.category_specific, 1)
            body == Join("\n\n",
                      <<prompts.base_prompt>>
                      \o [i \in 1..Len(withPrompt) |-> prompts.category_prompts[withPrompt[i]]]
                      \o <<disclaimers.general.educational>>
                      \o [i \in 1..Len(withDisclaimer) |->
                            disclaimers.category_specific[withDisclaimer[i]].general])
        IN  prompt \in {body, body \o "\n\n" \o prompts.safety_guidelines.medical_emergency}

\* a prompt with a category prompt, both kinds of disclaimer and a category
\* that has no category prompt
C16_Witness ==
    /\ Composed
    /\ DOMAIN topics = {"fitness", "skincare"}
    /\ prompt = Join("\n\n", <<prompts.base_prompt,
                               prompts.category_prompts["fitness"],
                               disclaimers.general.educational,
                               disclaimers.category_specific["skincare"].general>>)

\* s ends with suffix
EndsWith(s, suffix) ==
    Len(s) >= Len(suffix) /\ SubSeq(s, Len(s) - Len(suffix) + 1, Len(s)) = suffix

\* C17: the composed prompt contains the medical-emergency safety guideline if
\* and only if some matched topic has requires_disclaimer = true, and then the
\* guideline is the last part of the prompt.
C17_SafetyGuidelineIff ==
    Composed =>
        /\ Contains(prompt, prompts.safety_guidelines.medical_emergency)
              <=> \E c \in DOMAIN topics : topics[c].requires_disclaimer
        /\ Contains(prompt, prompts.safety_guidelines.medical_emergency)
              => EndsWith(prompt, "\n\n" \o prompts.safety_guidelines.medical_emergency)

\* one of two matched topics requires a disclaimer and the guideline is there
C17_Witness ==
    /\ Composed
    /\ DOMAIN topics = {"nutrition", "fitness"}
    /\ EndsWith(prompt, prompts.safety_guidelines.medical_emergency)

-----------------------------------------------------------------------------
(* More Python string primitives                                           *)

Least(S) == CHOOSE i \in S : \A j \in S : i <= j
Greatest(S) == CHOOSE i \in S : \A j \in S : j <= i

\* the start positions of `sub` in s
Occurrences(s, sub) ==
    { i \in 1..(Len(s) - Len(sub) + 1) : SubSeq(s, i, i + Len(sub) - 1) = sub }

\* s.replace(old, new): the non-overlapping occurrences, left to right
RECURSIVE Replace(_, _, _)
Replace(s, old, new) ==
    LET at == Occurrences(s, old) IN
    IF at = {} THEN s
    ELSE LET i == Least(at) IN
         SubSeq(s, 1, i - 1) \o new \o Replace(SubSeq(s, i + Len(old), Len(s)), old, new)

\* s.split(sep)
RECURSIVE Split(_, _)
Split(s, sep) ==
    LET at == Occurrences(s, sep) IN
    IF at = {} THEN <<s>>
    ELSE LET i == Least(at) IN
         <<SubSeq(s, 1, i - 1)>> \o Split(SubSeq(s, i + Len(sep), Len(s)), sep)

\* s.strip()
Strip(s) ==
    LET Ink(i) == CharAt(s, i) \notin Whitespace IN
    IF \A i \in 1..Len(s) : ~Ink(i) THEN ""
    ELSE SubSeq(s,
                CHOOSE i \in 1..Len(s) : Ink(i) /\ \A j \in 1..(i - 1) : ~Ink(j),
                CHOOSE i \in 1..Len(s) : Ink(i) /\ \A j \in (i + 1)..Len(s) : ~Ink(j))

\* [line.strip() for line in lines]
RECURSIVE StripEach(_)
StripEach(lines) ==
    IF lines = <<>> THEN <<>> ELSE <<Strip(Head(lines))>> \o StripEach(Tail(lines))

\* any(k in s for k in keywords)
ContainsAny(s, keywords) == \E k \in 1..Len(keywords) : Contains(s, keywords[k])

-----------------------------------------------------------------------------
(* CerebrasHandler (voice-assistant/src/handlers/cerebras_handler.py)      *)
(* Confidences are fixed-point numbers in millionths.                      *)

cerebras_maxsize == 100
cerebras_ttl == 1800

\* 1.0 in the fixed-point unit
ConfidenceOne == 1000000

InitialConfidence == (ConfidenceOne * 9) \div 10     \* "confidence": 0.9
ValidAbove == (ConfidenceOne * 7) \div 10            \* confidence > 0.7
NoteBelow == (ConfidenceOne * 8) \div 10             \* confidence < 0.8

\* validation["confidence"] *= 0.8, *= 0.9
TimesPoint8(c) == (c * 8) \div 10
TimesPoint9(c) == (c * 9) \div 10

BriefBelow == 50        \* len(response.split()) < 50
DetailedAbove == 200    \* len(response.split()) > 200
TermWindow == 50        \* response[term_loc:term_loc+50]
KeepTurns == 3          \* conversation_history[-3:]

\* self.medical_terms: the repository ships no config/medical_terms.json, so
\* load_medical_knowledge falls back to {} (lines 33-36)
medical_terms == <<>>

non_health_indicators ==
    <<"I can only assist with health", "I cannot provide information about">>
emergency_keywords == <<"emergency", "urgent", "severe", "critical", "life-threatening">>
treatment_keywords == <<"medication", "treatment", "therapy", "surgery">>

WARN_EMERGENCY == "Missing emergency disclaimer"
WARN_CONSULT == "Missing medical consultation disclaimer"
WARN_BRIEF == "Response may be too brief"
WARN_DETAILED == "Response may be too detailed"
WarnTerm(term) == "Medical term '" \o term \o "' may need explanation"

EMERGENCY_NOTICE ==
    "\n\nIMPORTANT: If this is a medical emergency, "
    \o "please call emergency services or visit the nearest emergency room immediately."

EDUCATIONAL_NOTE ==
    "\n\nNote: This information is for educational purposes only. "
    \o "Please consult with a healthcare professional for medical advice."

CEREBRAS_APOLOGY == "I apologize, but I encountered an error. Please try again."

CEREBRAS_MODEL == "llama-4-scout-17b-16e-instruct"

\* _extract_medical_terms (lines 178-191): the known terms found in the text
RECURSIVE ExtractFrom(_, _)
ExtractFrom(terms, low) ==
    IF terms = <<>> THEN <<>>
    ELSE (IF Contains(low, lower(Head(terms))) THEN <<Head(terms)>> ELSE <<>>)
         \o ExtractFrom(Tail(terms), low)

_extract_medical_terms(t) == ExtractFrom(medical_terms, lower(t))

\* _clean_response_text (lines 246-257)
_clean_response_text(t) ==
    LET unechoed == Replace(Replace(t, "User:", ""), "Assistant:", "")
        stripped == Join("\n", StripEach(Split(unechoed, "\n")))
        spaced   == Replace(stripped, "\n\n\n", "\n\n")
    IN  Strip(spaced)

\* lines 279-286: a term that is not followed by "means" or "is" within 50
\* characters costs a warning
RECURSIVE TermChecks(_, _, _)
TermChecks(terms, low, v) ==
    IF terms = <<>> THEN v
    ELSE LET at == Occurrences(low, lower(Head(terms)))
             window == IF at = {} THEN ""
                       ELSE SubSeq(low, Least(at),
                                   IF Least(at) + TermWindow - 1 < Len(low)
                                   THEN Least(at) + TermWindow - 1 ELSE Len(low))
             flagged == at # {} /\ ~Contains(window, "means") /\ ~Contains(window, "is")
         IN  TermChecks(Tail(terms), low,
                 IF flagged
                 THEN [v EXCEPT !.warnings = Append(@, WarnTerm(Head(terms))),
                                !.confidence = TimesPoint9(@)]
                 ELSE v)

\* lines 293-297: the emergency check
EmergencyCheck(low, qlow, v) ==
    IF ContainsAny(qlow, emergency_keywords)
    THEN IF ~Contains(low, "seek immediate medical attention")
         THEN [v EXCEPT !.requires_disclaimer = TRUE,
                        !.warnings = Append(@, WARN_EMERGENCY),
                        !.confidence = TimesPoint8(@)]
         ELSE [v EXCEPT !.requires_disclaimer = TRUE]
    ELSE v

\* lines 299-303: the treatment check
TreatmentCheck(low, v) ==
    IF ContainsAny(low, treatment_keywords)
    THEN IF ~Contains(low, "consult") /\ ~Contains(low, "healthcare provider")
         THEN [v EXCEPT !.requires_disclaimer = TRUE,
                        !.warnings = Append(@, WARN_CONSULT),
                        !.confidence = TimesPoint8(@)]
         ELSE [v EXCEPT !.requires_disclaimer = TRUE]
    ELSE v

\* lines 306-311: the length check
StructureCheck(words, v) ==
    IF words < BriefBelow
    THEN [v EXCEPT !.warnings = Append(@, WARN_BRIEF), !.confidence = TimesPoint8(@)]
    ELSE IF words > DetailedAbove
    THEN [v EXCEPT !.warnings = Append(@, WARN_DETAILED), !.confidence = TimesPoint9(@)]
    ELSE v

\* line 314: validation["is_valid"] = validation["confidence"] > 0.7
IsValidConfidence(c) == c > ValidAbove

\* CerebrasHandler._validate_response (lines 259-316)
_validate_response(r, query, terms) ==
    LET v0 == [is_valid |-> TRUE, confidence |-> InitialConfidence,
               warnings |-> <<>>, requires_disclaimer |-> FALSE]
    IN  IF ContainsAny(r, non_health_indicators) THEN v0
        ELSE LET low == lower(r)
                 v1 == TermChecks(terms, low, v0)
                 v2 == EmergencyCheck(low, lower(query), v1)
                 v3 == TreatmentCheck(low, v2)
                 v4 == StructureCheck(WordCount(r), v3)
             IN  [v4 EXCEPT !.is_valid = IsValidConfidence(v4.confidence)]

\* `"emergency" in validation.get("warnings", [])`: membership in the list
EmergencyWarned(warnings) == \E k \in 1..Len(warnings) : warnings[k] = "emergency"

\* CerebrasHandler._add_disclaimers (lines 318-337)
_add_disclaimers(r, v) ==
    IF ~v.requires_disclaimer THEN r
    ELSE r \o (IF EmergencyWarned(v.warnings) THEN EMERGENCY_NOTICE ELSE "")
           \o (IF v.confidence < NoteBelow THEN EDUCATIONAL_NOTE ELSE "")

\* CerebrasHandler._process_response (lines 214-244); the timestamp is the
\* clock reading t
_process_response(r, original_query, terms, t) ==
    LET cleaned == _clean_response_text(r)
        v == _validate_response(cleaned, original_query, terms)
    IN  [text |-> _add_disclaimers(cleaned, v),
         meta |-> [timestamp |-> t, model |-> CEREBRAS_MODEL, medical_terms |-> terms,
                   validation_results |-> v, is_valid |-> v.is_valid,
                   confidence_score |-> v.confidence]]

\* Bounds of the generate_response model
MaxRequests == 2    \* generate_response calls in one behaviour
MaxTicks == 1       \* the clock runs up to MaxTicks * cerebras_ttl

\* queries
EmergencyQuery == "Is severe chest pain an emergency?"
PlainQuery == "How much water should I drink?"

\* past exchanges
Turn1 == [user |-> "hi", assistant |-> "hello"]
Turn2 == [user |-> "thanks", assistant |-> "you are welcome"]

\* user_context as app.process_query builds it (app.py lines 199-203)
ContextOf(sender) == [platform |-> "whatsapp", sender |-> sender, format |-> "text"]

\* the requests a behaviour draws from
Requests ==
    { [query |-> EmergencyQuery, conversation_history |-> <<>>,
       user_context |-> ContextOf("whatsapp:+1")],
      [query |-> EmergencyQuery, conversation_history |-> <<>>,
       user_context |-> ContextOf("whatsapp:+2")],
      [query |-> PlainQuery, conversation_history |-> <<Turn1>>,
       user_context |-> ContextOf("whatsapp:+1")],
      [query |-> PlainQuery, conversation_history |-> <<Turn2>>,
       user_context |-> ContextOf("whatsapp:+1")],
      [query |-> PlainQuery, conversation_history |-> <<Turn1, Turn2, Turn1, Turn2>>,
       user_context |-> ContextOf("whatsapp:+1")],
      [query |-> PlainQuery, conversation_history |-> <<Turn2, Turn2, Turn1, Turn2>>,
       user_context |-> ContextOf("whatsapp:+1")] }

TenWords == "Drink a glass of water with each meal every day. "

\* what the LLM may answer
Completions ==
    { "Assistant: Drink water.  \n\n\n  Rest well. ",
      "Take your medication daily.",
      "Please seek immediate medical attention.",
      "I can only assist with health topics.",
      TenWords \o TenWords \o TenWords \o TenWords \o TenWords }

\* lines 49-50: `conversation_history[-3:]` when there are more than 3
Retained(history) ==
    IF Len(history) > KeepTurns
    THEN SubSeq(history, Len(history) - KeepTurns + 1, Len(history))
    ELSE history

\* str(n) for n >= 0
Digits == "0123456789"
RECURSIVE Str(_)
Str(n) == IF n < 10 THEN CharAt(Digits, n + 1)
          ELSE Str(n \div 10) \o CharAt(Digits, (n % 10) + 1)

\* line 63: cache_key = f"{query}_{len(conversation_history or [])}"
cache_key(query, history) == query \o "_" \o Str(Len(history))

KeyOf(r) == cache_key(r.query, Retained(r.conversation_history))

\* Cache.__setitem__'s `while self.currsize + size > maxsize: self.popitem()`
RECURSIVE MakeRoomIn(_, _)
MakeRoomIn(cache, size) ==
    IF Len(cache) + 1 > size THEN MakeRoomIn(Tail(cache), size) ELSE cache

\* TTLCache.__setitem__ on the handler's TTLCache(maxsize=100, ttl=1800)
cerebras_setitem(cache, key, value, t) ==
    LET live == expire(cache, t)
        room == IF HasKey(live, key) THEN Without(live, key)
                ELSE MakeRoomIn(live, cerebras_maxsize)
    IN  room \o <<[key |-> key, value |-> value, expires |-> t + cerebras_ttl]>>

\* mutant: every response is cached
cache_if_always(meta) == TRUE

\* line 103: `if metadata.get("is_valid", False):`
cache_if(meta) == meta.is_valid

\* mutant: the call is retried once after a failure
generation_failed_retry(calls) ==
    IF calls < 2
    THEN [again |-> TRUE, ret |-> NoReturn]
    ELSE [again |-> FALSE,
          ret |-> [text |-> CEREBRAS_APOLOGY,
                   meta |-> [error |-> "APIError", is_valid |-> FALSE]]]

\* lines 108-113: `except Exception as e:` after `calls` generator calls
generation_failed(calls) ==
    [again |-> FALSE,
     ret |-> [text |-> CEREBRAS_APOLOGY,
              meta |-> [error |-> "APIError", is_valid |-> FALSE]]]

\* _process_response of every completion for every query, computed once
\* (with timestamp 0)
Processed ==
    [c \in Completions |->
        [q \in {EmergencyQuery, PlainQuery} |->
            _process_response(c, q, _extract_medical_terms(q), 0)]]

\* lines 98-100: processed_response, metadata = self._process_response(...)
process(c, q, t) == [Processed[c][q] EXCEPT !.meta.timestamp = t]

\* the timer of the cache moves on by a TTL (between any two statements)
CerebrasTick ==
    /\ ctime + cerebras_ttl <= MaxTicks * cerebras_ttl
    /\ ctime' = ctime + cerebras_ttl
    /\ UNCHANGED <<cerebras_cache, stored_by, requests, cpc, creq, completion,
                   cret, cexc, llm_calls, cprev>>
    /\ UNCHANGED outside_cerebras

\* lines 38-64: a caller calls generate_response; the history is cut to its
\* last three exchanges and the key is looked up
GenerateResponse ==
    /\ cpc = "idle"
    /\ requests < MaxRequests
    /\ \E r \in Requests :
          /\ creq' = r
          /\ cpc' = IF cache_contains(cerebras_cache, KeyOf(r), ctime)
                    THEN "L65" ELSE "L68"
    /\ cprev' = IF requests = 0 THEN NoPrevRequest
                ELSE [key |-> KeyOf(creq), is_valid |-> cret.meta.is_valid,
                      escaped |-> cexc # None]
    /\ requests' = requests + 1
    /\ completion' = None
    /\ cret' = NoReturn
    /\ cexc' = None
    /\ llm_calls' = 0
    /\ UNCHANGED <<ctime, cerebras_cache, stored_by>>
    /\ UNCHANGED outside_cerebras

\* line 65: return self.response_cache[cache_key] (outside the try block)
CachedReturn ==
    /\ cpc = "L65"
    /\ LET got == cache_getitem(cerebras_cache, KeyOf(creq), ctime) IN
          /\ cerebras_cache' = got.cache
          /\ IF got.exc # None
             THEN /\ cexc' = got.exc
                  /\ cret' = cret
             ELSE /\ cret' = got.value
                  /\ cexc' = cexc
    /\ cpc' = "idle"
    /\ UNCHANGED <<ctime, stored_by, requests, creq, completion, llm_calls, cprev>>
    /\ UNCHANGED outside_cerebras

\* lines 68-95: the prompt and the messages are built and the LLM is called;
\* it answers or the call raises
Complete ==
    /\ cpc = "L68"
    /\ llm_calls' = llm_calls + 1
    /\ \/ \E c \in Completions :
             /\ completion' = c
             /\ cpc' = "L98"
             /\ cret' = cret
       \/ LET failed == generation_failed(llm_calls + 1) IN
             /\ completion' = completion
             /\ cpc' = IF failed.again THEN "L68" ELSE "idle"
             /\ cret' = failed.ret
    /\ UNCHANGED <<ctime, cerebras_cache, stored_by, requests, creq, cexc, cprev>>
    /\ UNCHANGED outside_cerebras

\* lines 98-106: the response is processed, cached if valid, and returned
ProcessAndReturn ==
    /\ cpc = "L98"
    /\ LET out == process(completion, creq.query, ctime)
           key == KeyOf(creq)
       IN  /\ IF cache_if(out.meta)
              THEN /\ cerebras_cache' = cerebras_setitem(cerebras_cache, key, out, ctime)
                   /\ stored_by' = [k \in DOMAIN stored_by \cup {key} |->
                                       IF k = key THEN creq ELSE stored_by[k]]
              ELSE UNCHANGED <<cerebras_cache, stored_by>>
           /\ cret' = out
    /\ cpc' = "idle"
    /\ UNCHANGED <<ctime, requests, creq, completion, cexc, llm_calls, cprev>>
    /\ UNCHANGED outside_cerebras

InitCerebras == HealthIdle /\ OutsideHealthIdle

NextCerebras ==
    \/ CerebrasTick
    \/ GenerateResponse
    \/ CachedReturn
    \/ Complete
    \/ ProcessAndReturn

SpecCerebras == InitCerebras /\ [][NextCerebras]_vars

-----------------------------------------------------------------------------
(* Properties of CerebrasHandler.generate_response                         *)

\* the running generate_response call has returned to its caller
Returned == cpc = "idle" /\ requests > 0 /\ cexc = None

\* the call was answered from the cache
ServedFromCache == Returned /\ llm_calls = 0

\* C22: when the LLM call fails, generate_response returns the generic
\* apology with is_valid = false and does not call the generator again for
\* that request.
C22_FailureApologizesOnce ==
    /\ llm_calls <= 1
    /\ (Returned /\ llm_calls > 0 /\ completion = None) =>
          /\ cret.text = CEREBRAS_APOLOGY
          /\ cret.meta.is_valid = FALSE

\* the only LLM call of a request failed and the caller got the apology
C22_Witness ==
    /\ Returned
    /\ llm_calls = 1
    /\ completion = None
    /\ cret.text = CEREBRAS_APOLOGY

\* C25: a cached response is served only to a request whose query and
\* retained recent turns equal those of the request that stored it, and whose
\* user context is the same.
C25_CacheKeyedByContext ==
    ServedFromCache =>
        LET by == stored_by[KeyOf(creq)] IN
            /\ by.query = creq.query
            /\ Retained(by.conversation_history) = Retained(creq.conversation_history)
            /\ by.user_context = creq.user_context

\* C26: every entry of the response cache has metadata is_valid = true, is
\* not the apology and has a confidence above 0.7; after a request that
\* returned is_valid = false, the next request with the same key reaches the
\* generator again.
C26_OnlyValidCached ==
    /\ \A i \in 1..Len(cerebras_cache) :
          /\ cerebras_cache[i].value.meta.is_valid = TRUE
          /\ cerebras_cache[i].value.text # CEREBRAS_APOLOGY
          /\ cerebras_cache[i].value.meta.confidence_score > ValidAbove
    /\ (/\ requests > 1 /\ cprev.key = KeyOf(creq)
        /\ ~cprev.is_valid /\ ~cprev.escaped) =>
          /\ cpc # "L65"
          /\ Returned => llm_calls = 1

\* a request follows one with the same key that returned an invalid
\* response, and has called the generator again
C26_Witness ==
    /\ Returned
    /\ requests > 1
    /\ cprev.key = KeyOf(creq)
    /\ ~cprev.is_valid /\ ~cprev.escaped
    /\ llm_calls = 1
    /\ completion # None
    /\ ~cret.meta.is_valid

\* C30: when the query contains an emergency keyword and the generated
\* response does not contain "seek immediate medical attention", the final
\* response carries the IMPORTANT emergency-services notice.
C30_EmergencyNoticeAppended ==
    (/\ Returned /\ completion # None
     /\ ContainsAny(lower(creq.query), emergency_keywords)
     /\ ~Contains(lower(completion), "seek immediate medical attention")) =>
        Contains(cret.text, EMERGENCY_NOTICE)

-----------------------------------------------------------------------------
(* The WhatsApp webhook (voice-assistant/src/app.py, handle_message)       *)

MaxMessages == 3    \* webhook requests in one behaviour

\* line 40 (the keycap emoji of the source written as [1] and [2])
FORMAT_QUESTION ==
    "How would you like to receive the response?\n\nReply with:\n[1] for Text\n[2] for Voice"

NO_CONTENT == "No message content (text or voice)"

VOICE_FALLBACK ==
    "Sorry, I couldn't generate the voice response. Here's your response in text format:\n\n"

\* line 242: the confirmation sent when there is no pending query
Confirmation(choice) ==
    "Great! I'll send responses in " \o (IF choice = "1" THEN "text" ELSE "voice")
    \o " format. What would you like to know?"

\* the form fields Body and MediaUrl0 of the requests a behaviour draws from
Forms ==
    { [Body |-> "Test message", MediaUrl0 |-> ""],
      [Body |-> " 1 ", MediaUrl0 |-> ""],
      [Body |-> "2", MediaUrl0 |-> ""],
      [Body |-> "Change Format", MediaUrl0 |-> ""],
      [Body |-> "", MediaUrl0 |-> "https://example.com/audio.ogg"],
      [Body |-> "", MediaUrl0 |-> ""] }

\* what cerebras_handler.generate_response may answer
Answers == { "Test response", "Stay hydrated." }

\* process_query (lines 191-210): the answer in the sender's format; the
\* voice reply is an empty TwiML document, or the text after a TTS failure
process_query(format, answer, tts_ok) ==
    IF format = "voice"
    THEN (IF tts_ok THEN "" ELSE VOICE_FALLBACK \o answer)
    ELSE answer

\* handle_voice (lines 263-352): the transcript answered, or the apology
handle_voice(answer, heard) ==
    IF heard
    THEN "I heard: 'Test voice message'\n\nHere's my response:\n\n" \o answer
    ELSE "I apologize, but I'm having trouble processing your voice message right now. "
         \o "Error: Could not transcribe voice message"

\* line 236: `if user_pref['pending_query']:`
has_pending(q) == q # None /\ q # ""

\* handle_message (lines 213-261) for one request: the new preferences of
\* the sender and the reply
handle_message(pref, form, answer, ok) ==
    IF form.Body = "" /\ form.MediaUrl0 = ""
    THEN [pref |-> pref, status |-> 400, body |-> NO_CONTENT]
    ELSE LET incoming_msg == Strip(form.Body) IN
         IF pref.state = "asking"
         THEN IF incoming_msg \in {"1", "2"}
              THEN LET chosen == IF incoming_msg = "1" THEN "text" ELSE "voice" IN
                   IF has_pending(pref.pending_query)
                   THEN [pref |-> [state |-> "ready", format |-> chosen,
                                   pending_query |-> None],
                         status |-> 200, body |-> process_query(chosen, answer, ok)]
                   ELSE [pref |-> [pref EXCEPT !.state = "ready", !.format = chosen],
                         status |-> 200, body |-> Confirmation(incoming_msg)]
              ELSE [pref |-> [pref EXCEPT !.pending_query = incoming_msg],
                    status |-> 200, body |-> FORMAT_QUESTION]
         ELSE IF form.MediaUrl0 # ""
         THEN [pref |-> pref, status |-> 200, body |-> handle_voice(answer, ok)]
         ELSE IF lower(incoming_msg) \in {"change format", "switch format", "format"}
         THEN [pref |-> [pref EXCEPT !.state = "asking"],
               status |-> 200, body |-> FORMAT_QUESTION]
         ELSE [pref |-> pref, status |-> 200,
               body |-> process_query(pref.format, answer, ok)]

\* POST /webhook
Webhook ==
    /\ Len(wlog) < MaxMessages
    /\ \E s \in Senders, form \in Forms, answer \in Answers, ok \in BOOLEAN :
          LET out == handle_message(user_preferences[s], form, answer, ok) IN
             /\ user_preferences' = [user_preferences EXCEPT ![s] = out.pref]
             /\ wlog' = Append(wlog, [From |-> s, form |-> form,
                                      status |-> out.status, body |-> out.body])
    /\ UNCHANGED outside_webhook

InitWebhook == HealthIdle /\ OutsideHealthIdle

SpecWebhook == InitWebhook /\ [][Webhook]_vars

\* request i is the first the sender of request i made
FirstOfSender(i) == \A j \in 1..(i - 1) : wlog[j].From # wlog[i].From

\* request k is the next request of the sender of request i
NextOfSender(i, k) ==
    /\ i < k
    /\ wlog[k].From = wlog[i].From
    /\ \A j \in (i + 1)..(k - 1) : wlog[j].From # wlog[i].From

IsText(i) == wlog[i].form.Body # "" /\ wlog[i].form.MediaUrl0 = ""

\* C23: a sender's first text message is answered with the format question,
\* and when the sender then replies "1" the webhook answers with a
\* confirmation that mentions text format, records format = text and moves
\* the sender to the ready state.
C23_FormatSelection ==
    \A i \in 1..Len(wlog) :
        (FirstOfSender(i) /\ IsText(i) /\ Strip(wlog[i].form.Body) \notin {"1", "2"}) =>
            /\ wlog[i].body = FORMAT_QUESTION
            /\ (NextOfSender(i, Len(wlog)) /\ Strip(wlog[Len(wlog)].form.Body) = "1") =>
                  /\ Contains(wlog[Len(wlog)].body, "text format")
                  /\ user_preferences[wlog[i].From].format = "text"
                  /\ user_preferences[wlog[i].From].state = "ready"

-----------------------------------------------------------------------------
(* TwilioHandler.send_message_parts: the handler of                        *)
(* medi-fit/app/voice_assistant (fixed-size chunks) and the handler of     *)
(* voice-assistant (sentence-based chunks)                                 *)

PART_SIZE == 1500     \* medi-fit handler: len(text) <= 1500, text[i:i+1500]
CHUNK_SIZE == 1400    \* voice-assistant handler: CHUNK_SIZE = 1400

\* c * n
RECURSIVE Fill(_, _)
Fill(c, n) ==
    IF n = 0 THEN ""
    ELSE IF n = 1 THEN c
    ELSE LET half == Fill(c, n \div 2) IN
         half \o half \o (IF n % 2 = 1 THEN c ELSE "")

\* k sentences of m characters each, joined by ". "
Prose(m, k) == Join(". ", [i \in 1..k |-> Fill("y", m)])

\* s with the characters at the positions `drop` left out, by halves
RECURSIVE KeepRange(_, _, _, _)
KeepRange(s, drop, i, j) ==
    IF i > j THEN ""
    ELSE IF i = j THEN (IF i \in drop THEN "" ELSE CharAt(s, i))
    ELSE LET m == (i + j) \div 2 IN
         KeepRange(s, drop, i, m) \o KeepRange(s, drop, m + 1, j)

Without_(s, drop) == IF drop = {} THEN s ELSE KeepRange(s, drop, 1, Len(s))

\* re.sub(r'#+\s*', '', s): the '#' and the whitespace that follows a '#'
Headers(s) ==
    { i \in 1..Len(s) :
        \/ CharAt(s, i) = "#"
        \/ /\ CharAt(s, i) \in Whitespace
           /\ \E k \in 1..(i - 1) :
                 /\ CharAt(s, k) = "#"
                 /\ \A j \in (k + 1)..i : CharAt(s, j) \in Whitespace }

\* re.sub(r'\*+', '', s)
Stars(s) == { i \in 1..Len(s) : CharAt(s, i) = "*" }

\* re.sub(r'\n{3,}', '\n\n', s): the newlines after the second of a run
ExtraNewlines(s) ==
    { i \in 3..Len(s) :
        CharAt(s, i) = "\n" /\ CharAt(s, i - 1) = "\n" /\ CharAt(s, i - 2) = "\n" }

\* TwilioHandler.clean_markdown (the same in both handlers)
clean_markdown(t) ==
    LET unheaded == Without_(t, Headers(t))
        unstarred == Without_(unheaded, Stars(unheaded))
        spaced == Without_(unstarred, ExtraNewlines(unstarred))
    IN  Strip(spaced)

\* str(MessagingResponse()) with and without a message
EMPTY_TWIML == "<?xml version=\"1.0\" encoding=\"UTF-8\"?><Response />"
Twiml(message) ==
    "<?xml version=\"1.0\" encoding=\"UTF-8\"?><Response><Message>"
    \o message \o "</Message></Response>"

\* medi-fit line 128: [text[i:i+1500] for i in range(0, len(text), 1500)]
FixedChunks(t) ==
    [k \in 1..((Len(t) + PART_SIZE - 1) \div PART_SIZE) |->
        SubSeq(t, (k - 1) * PART_SIZE + 1,
               IF k * PART_SIZE < Len(t) THEN k * PART_SIZE ELSE Len(t))]

\* voice-assistant lines 169-178: the sentences packed into chunks
RECURSIVE Pack(_, _, _)
Pack(sentences, chunks, current_chunk) ==
    IF sentences = <<>>
    THEN (IF current_chunk # "" THEN Append(chunks, Strip(current_chunk)) ELSE chunks)
    ELSE LET sentence == Head(sentences) IN
         IF Len(current_chunk) + Len(sentence) + 2 <= CHUNK_SIZE
         THEN Pack(Tail(sentences), chunks, current_chunk \o sentence \o ". ")
         ELSE Pack(Tail(sentences),
                   IF current_chunk # "" THEN Append(chunks, Strip(current_chunk))
                   ELSE chunks,
                   sentence \o ". ")

\* voice-assistant lines 165-178
SentenceChunks(t) == Pack(Split(t, ". "), <<>>, "")

\* the texts a behaviour draws from
TwilioTexts ==
    { "Short message", "# Header\n**Bold** *Italic*\n\n\nMultiple lines" }
    \cup { Fill("x", n) : n \in {13, 1399, 1400, 1401, 1499, 1500, 1501,
                                 2000, 2999, 3000, 3001, 4501} }
    \cup { Prose(100, 20), Prose(50, 40), Prose(698, 3), Prose(699, 3), Prose(700, 3),
           Prose(1397, 2), Prose(1398, 2), Prose(1399, 2), Prose(1400, 2), Prose(1500, 2) }

InitTwilio ==
    /\ HealthIdle /\ CerebrasIdle /\ WebhookIdle /\ AgentIdle
    /\ tw_pc = "called"
    /\ tw_text \in TwilioTexts
    /\ rest_ok = FALSE
    /\ tw_chunks = <<>>
    /\ tw_sent = <<>>
    /\ tw_background = FALSE
    /\ tw_reply = None

\* medi-fit TwilioHandler.send_message_parts (lines 113-154), with
\* create_response (35-66) for the short text
SendPartsFixed ==
    /\ tw_pc = "called"
    /\ \E ok \in BOOLEAN :
       LET t == clean_markdown(tw_text)
           chunks == FixedChunks(t)
           first == chunks[1] \o "\n(Part 1/" \o Str(Len(chunks)) \o ")"
       IN  /\ rest_ok' = ok
           /\ IF Len(t) <= PART_SIZE
              THEN /\ tw_chunks' = <<>>
                   /\ tw_background' = FALSE
                   /\ tw_sent' = IF ok THEN <<t>> ELSE <<>>
                   /\ tw_reply' = IF ok THEN EMPTY_TWIML ELSE Twiml(t)
              ELSE /\ tw_chunks' = chunks
                   /\ tw_background' = ok
                   /\ tw_sent' = IF ok THEN <<first>> ELSE <<>>
                   /\ tw_reply' = IF ok THEN EMPTY_TWIML ELSE Twiml(first)
    /\ tw_pc' = "fixed"
    /\ UNCHANGED tw_text
    /\ UNCHANGED outside_twilio

\* voice-assistant TwilioHandler.send_message_parts (lines 148-206), with
\* create_response (28-54) for the short text
SendPartsSentences ==
    /\ tw_pc = "called"
    /\ \E ok \in BOOLEAN :
       LET t == clean_markdown(tw_text)
           chunks == SentenceChunks(t)
           first == chunks[1] \o "\n\n(Part 1/" \o Str(Len(chunks)) \o ")"
       IN  /\ rest_ok' = ok
           /\ IF Len(t) <= CHUNK_SIZE
              THEN /\ tw_chunks' = <<>>
                   /\ tw_background' = FALSE
                   /\ tw_sent' = IF ok THEN <<t>> ELSE <<>>
                   /\ tw_reply' = IF ok THEN EMPTY_TWIML ELSE Twiml(t)
              ELSE /\ tw_chunks' = chunks
                   /\ tw_background' = (ok /\ Len(chunks) > 1)
                   /\ tw_sent' = IF ok THEN <<first>> ELSE <<>>
                   /\ tw_reply' = IF ok THEN EMPTY_TWIML ELSE Twiml(first)
    /\ tw_pc' = "sentences"
    /\ UNCHANGED tw_text
    /\ UNCHANGED outside_twilio

NextTwilio ==
    \/ SendPartsFixed
    \/ SendPartsSentences

SpecTwilio == InitTwilio /\ [][NextTwilio]_vars

\* C24: the medi-fit send_message_parts returns a response that contains
\* the whole cleaned text without a part label when it has at most 1500
\* characters, and otherwise a response that contains the first chunk
\* labelled "Part 1/N" with N = ceil(length / 1500), whether or not the REST
\* send succeeded.
C24_ReplyCarriesText ==
    tw_pc = "fixed" =>
        LET t == clean_markdown(tw_text)
            n == (Len(t) + PART_SIZE - 1) \div PART_SIZE
        IN  IF Len(t) <= PART_SIZE
            THEN Contains(tw_reply, t) /\ ~Contains(tw_reply, "Part 1/")
            ELSE /\ Contains(tw_reply, SubSeq(t, 1, PART_SIZE))
                 /\ Contains(tw_reply, "Part 1/" \o Str(n) \o ")")

\* C27: for a text longer than CHUNK_SIZE, every chunk the sentence-based
\* splitter produces has at most CHUNK_SIZE (1400) characters.
C27_ChunksWithinLimit ==
    (tw_pc = "sentences" /\ Len(clean_markdown(tw_text)) > CHUNK_SIZE) =>
        \A k \in 1..Len(tw_chunks) : Len(tw_chunks[k]) <= CHUNK_SIZE

-----------------------------------------------------------------------------
(* The LiveKit agent (voice-assistant/src/agent.py): the audio-frame loop, *)
(* the voice control messages and the process_voice_buffer tasks.  A task  *)
(* runs without interruption from one await to the next.                   *)

BUFFER_LIMIT == 3     \* BUFFER_LIMIT = 3.0 seconds
FrameSeconds == 1     \* frame.samples_per_channel / frame.sample_rate of a frame

\* Bounds of the agent model
MaxFrames == 6        \* audio frames in one behaviour
MaxControls == 2      \* control messages in one behaviour

Participants == {"user-1", "user-2"}

\* d.get(k, default)
Get(d, k, default) == IF k \in DOMAIN d THEN d[k] ELSE default

\* d[k] = v
Put(d, k, v) == [x \in DOMAIN d \cup {k} |-> IF x = k THEN v ELSE d[x]]

\* mutant: the guard of line 140 left out
already_processing_unchecked(d, pid) == FALSE

\* line 140: `if is_processing_voice.get(participant_id, False):`
already_processing(d, pid) == Get(d, pid, FALSE)

\* on_track_subscribed -> handle_audio_track, up to its loop (lines 269-281)
TrackSubscribed ==
    /\ \E pid \in Participants \ DOMAIN audio_buffers :
          /\ audio_buffers' = Put(audio_buffers, pid, <<>>)
          /\ voice_enabled' = Put(voice_enabled, pid, FALSE)
          /\ buffer_duration' = Put(buffer_duration, pid, 0)
    /\ UNCHANGED <<is_processing_voice, tasks, frames, controls, transcribed, published>>
    /\ UNCHANGED outside_agent

\* one turn of the loop of handle_audio_track (lines 282-304)
AudioFrame ==
    /\ frames < MaxFrames
    /\ frames' = frames + 1
    /\ \E pid \in DOMAIN audio_buffers :
          IF ~Get(voice_enabled, pid, FALSE)
          THEN /\ IF Len(audio_buffers[pid]) > 0
                  THEN /\ audio_buffers' = Put(audio_buffers, pid, <<>>)
                       /\ buffer_duration' = Put(buffer_duration, pid, 0)
                  ELSE UNCHANGED <<audio_buffers, buffer_duration>>
               /\ UNCHANGED tasks
          ELSE LET duration == buffer_duration[pid] + FrameSeconds IN
               /\ audio_buffers' =
                     Put(audio_buffers, pid, Append(audio_buffers[pid], frames + 1))
               /\ IF duration >= BUFFER_LIMIT
                  THEN /\ tasks' = Append(tasks, [pid |-> pid, pc |-> "scheduled",
                                                  audio_data |-> <<>>])
                       /\ buffer_duration' = Put(buffer_duration, pid, 0)
                  ELSE /\ buffer_duration' = Put(buffer_duration, pid, duration)
                       /\ UNCHANGED tasks
    /\ UNCHANGED <<is_processing_voice, voice_enabled, controls, transcribed, published>>
    /\ UNCHANGED outside_agent

\* handle_text_message for __VOICE_ENABLE__ / __VOICE_DISABLE__ (lines 82-94)
VoiceControl ==
    /\ controls < MaxControls
    /\ controls' = controls + 1
    /\ \E on \in BOOLEAN :
          voice_enabled' = [pid \in DOMAIN voice_enabled \cup DOMAIN audio_buffers |->
                               IF pid \in DOMAIN audio_buffers THEN on ELSE voice_enabled[pid]]
    /\ UNCHANGED <<audio_buffers, is_processing_voice, buffer_duration, tasks, frames,
                   transcribed, published>>
    /\ UNCHANGED outside_agent

\* the `finally` of line 215, ending task i
Finally(i) ==
    /\ is_processing_voice' = Put(is_processing_voice, tasks[i].pid, FALSE)
    /\ tasks' = [tasks EXCEPT ![i].pc = "done"]

\* process_voice_buffer from its start to its first await (lines 140-156)
TaskStart ==
    /\ \E i \in 1..Len(tasks) :
          /\ tasks[i].pc = "scheduled"
          /\ LET pid == tasks[i].pid IN
             IF already_processing(is_processing_voice, pid)
             THEN /\ tasks' = [tasks EXCEPT ![i].pc = "skipped"]
                  /\ UNCHANGED <<is_processing_voice, audio_buffers, transcribed>>
             ELSE IF pid \notin DOMAIN audio_buffers \/ Len(audio_buffers[pid]) = 0
             THEN /\ Finally(i)
                  /\ UNCHANGED <<audio_buffers, transcribed>>
             ELSE /\ is_processing_voice' = Put(is_processing_voice, pid, TRUE)
                  /\ tasks' = [tasks EXCEPT ![i].pc = "L156",
                                            ![i].audio_data = audio_buffers[pid]]
                  /\ audio_buffers' = Put(audio_buffers, pid, <<>>)
                  /\ transcribed' = Append(transcribed,
                         [pid |-> pid, enabled |-> Get(voice_enabled, pid, FALSE)])
    /\ UNCHANGED <<voice_enabled, buffer_duration, frames, controls, published>>
    /\ UNCHANGED outside_agent

\* the await of line 156 returns: a transcript, or nothing (line 160), or
\* an exception; with a transcript the task goes on to the awaits of lines
\* 165-189
TaskTranscribed ==
    /\ \E i \in 1..Len(tasks) :
          /\ tasks[i].pc = "L156"
          /\ \/ /\ tasks' = [tasks EXCEPT ![i].pc = "L189"]
                /\ UNCHANGED is_processing_voice
             \/ Finally(i)
    /\ UNCHANGED <<audio_buffers, voice_enabled, buffer_duration, frames, controls,
                   transcribed, published>>
    /\ UNCHANGED outside_agent

\* the awaits of lines 165-189 have returned: the speech is published
\* (lines 196-202), or there is no speech (line 193) or an exception
TaskPublish ==
    /\ \E i \in 1..Len(tasks) :
          /\ tasks[i].pc = "L189"
          /\ \/ /\ tasks' = [tasks EXCEPT ![i].pc = "L202"]
                /\ published' = Append(published,
                       [pid |-> tasks[i].pid,
                        enabled |-> Get(voice_enabled, tasks[i].pid, FALSE)])
                /\ UNCHANGED is_processing_voice
             \/ /\ Finally(i)
                /\ UNCHANGED published
    /\ UNCHANGED <<audio_buffers, voice_enabled, buffer_duration, frames, controls,
                   transcribed>>
    /\ UNCHANGED outside_agent

\* lines 202-215: the audio has played and the track is unpublished, or an
\* exception is logged; the flag is lowered
TaskEnd ==
    /\ \E i \in 1..Len(tasks) :
          /\ tasks[i].pc = "L202"
          /\ Finally(i)
    /\ UNCHANGED <<audio_buffers, voice_enabled, buffer_duration, frames, controls,
                   transcribed, published>>
    /\ UNCHANGED outside_agent

NextAgent ==
    \/ TrackSubscribed
    \/ AudioFrame
    \/ VoiceControl
    \/ TaskStart
    \/ TaskTranscribed
    \/ TaskPublish
    \/ TaskEnd

InitAgent == HealthIdle /\ OutsideHealthIdle

SpecAgent == InitAgent /\ [][NextAgent]_vars

\* task i is past the guard of line 140 and has not reached the end of
\* process_voice_buffer
InFlight(i) == tasks[i].pc \in {"L156", "L189", "L202"}

InFlightOf(pid) == { i \in 1..Len(tasks) : tasks[i].pid = pid /\ InFlight(i) }

Bytes(seq) == { seq[k] : k \in 1..Len(seq) }

\* C28: for each participant at most one execution of process_voice_buffer
\* is past its guard at any time, every buffered audio byte is handed to at
\* most one execution (and leaves the buffer when it is handed over), and
\* the participant's is_processing flag is false whenever no execution is
\* in flight, errors and early returns included.
C28_OneExecutionPerParticipant ==
    /\ \A pid \in Participants : Cardinality(InFlightOf(pid)) <= 1
    /\ \A i, j \in 1..Len(tasks) :
          i # j => Bytes(tasks[i].audio_data) \cap Bytes(tasks[j].audio_data) = {}
    /\ \A i \in 1..Len(tasks) : \A pid \in DOMAIN audio_buffers :
          Bytes(tasks[i].audio_data) \cap Bytes(audio_buffers[pid]) = {}
    /\ \A pid \in Participants :
          InFlightOf(pid) = {} => ~Get(is_processing_voice, pid, FALSE)

\* a task returned at the guard while another task of the same participant
\* held the audio, that task has ended, and the flag is false again
C28_Witness ==
    \E i, j \in 1..Len(tasks) :
        /\ tasks[i].pid = tasks[j].pid
        /\ tasks[i].pc = "skipped"
        /\ tasks[j].pc = "done"
        /\ tasks[j].audio_data # <<>>
        /\ InFlightOf(tasks[i].pid) = {}
        /\ tasks[i].pid \in DOMAIN is_processing_voice
        /\ ~is_processing_voice[tasks[i].pid]

\* C29: voice is disabled by default for every participant, and while a
\* participant's voice_enabled flag is false none of their audio is sent to
\* transcription and no voice response is published for them.
C29_DisabledVoiceIsSilent ==
    /\ controls = 0 => \A pid \in DOMAIN voice_enabled : ~voice_enabled[pid]
    /\ \A k \in 1..Len(transcribed) : transcribed[k].enabled
    /\ \A k \in 1..Len(published) : published[k].enabled

====
